---- MODULE Spec2Model ----
(***************************************************************************)
(* Proof-of-work difficulty core of src/pow.cpp: the retargeting           *)
(* dispatcher GetNextWorkRequired, the ASERT calculator CalculateASERT,    *)
(* the transition validator PermittedDifficultyTransition and the proof    *)
(* verifier CheckProofOfWork.                                              *)
(*                                                                         *)
(* 256-bit and 64-bit unsigned integers are little-endian sequences of     *)
(* bytes of fixed length (32 and 8), so that every operation wraps at the  *)
(* width of its C++ type.  Native integers are used only for quantities    *)
(* that the bounds of the model keep below 2^31.                           *)
(***************************************************************************)
EXTENDS Integers, Sequences, FiniteSets, TLC

VARIABLES chain, params, ret, calc, trans, pow

vars == <<chain, params, ret, calc, trans, pow>>

(***************************************************************************)
(* Fixed-width unsigned integers (arith_uint256, uint64_t).                *)
(***************************************************************************)
Bytes256 == 32
Bytes64 == 8

Abs(x) == IF x < 0 THEN -x ELSE x

\* The value v (0 <= v < 2^31) as an n-byte integer.
FromInt(v, n) ==
  [i \in 1..n |-> IF i > 4 THEN 0 ELSE (v \div (256 ^ (i - 1))) % 256]

\* The value of a, which must be below 2^31.
ToInt(a) ==
  a[1] + 256 * a[2] + 65536 * a[3] + 16777216 * a[4]

IsZero(a) == \A i \in DOMAIN a : a[i] = 0

\* Number of significant bytes: (bits() + 7) / 8.
RECURSIVE TopByte(_, _)
TopByte(a, i) == IF i = 0 \/ a[i] # 0 THEN i ELSE TopByte(a, i - 1)

SizeBytes(a) == TopByte(a, Len(a))

\* Position of the highest set bit plus one: bits().
RECURSIVE BitWidth(_)
BitWidth(v) == IF v = 0 THEN 0 ELSE 1 + BitWidth(v \div 2)

Bits(a) ==
  LET n == SizeBytes(a)
  IN  IF n = 0 THEN 0 ELSE 8 * (n - 1) + BitWidth(a[n])

RECURSIVE LessFrom(_, _, _)
LessFrom(a, b, i) ==
  IF i = 0 THEN FALSE
  ELSE IF a[i] # b[i] THEN a[i] < b[i]
  ELSE LessFrom(a, b, i - 1)

\* a < b; the operands are evaluated once and compared from the top byte down.
Less(a, b) == \E x \in {a}, y \in {b} : LessFrom(x, y, Len(x))

LessEq(a, b) == ~Less(b, a)

\* a * k modulo 256^Len(a), for 0 <= k < 2^23.
RECURSIVE MulFrom(_, _, _, _)
MulFrom(a, k, i, carry) ==
  IF i > Len(a) THEN <<>>
  ELSE LET t == a[i] * k + carry
       IN  <<t % 256>> \o MulFrom(a, k, i + 1, t \div 256)

MulSmall(a, k) == MulFrom(a, k, 1, 0)

\* a + b modulo 256^Len(a).
RECURSIVE AddFrom(_, _, _, _)
AddFrom(a, b, i, carry) ==
  IF i > Len(a) THEN <<>>
  ELSE LET t == a[i] + b[i] + carry
       IN  <<t % 256>> \o AddFrom(a, b, i + 1, t \div 256)

AddBig(a, b) == AddFrom(a, b, 1, 0)

\* floor(a / d), for 0 < d < 2^23.
RECURSIVE DivFrom(_, _, _, _)
DivFrom(a, d, i, rem) ==
  IF i < 1 THEN <<>>
  ELSE LET t == rem * 256 + a[i]
       IN  DivFrom(a, d, i - 1, t % d) \o <<t \div d>>

DivSmall(a, d) == DivFrom(a, d, Len(a), 0)

\* a << s modulo 256^Len(a), s >= 0.
ShiftLeft(a, s) ==
  LET n == Len(a)
      k == s \div 8
      r == s % 8
      at(j) == IF j >= 1 /\ j <= n THEN a[j] ELSE 0
  IN  [i \in 1..n |->
         ((at(i - k) * (2 ^ r)) % 256) + (at(i - k - 1) \div (2 ^ (8 - r)))]

\* a >> s, s >= 0.
ShiftRight(a, s) ==
  LET n == Len(a)
      k == s \div 8
      r == s % 8
      at(j) == IF j >= 1 /\ j <= n THEN a[j] ELSE 0
  IN  [i \in 1..n |->
         (at(i + k) \div (2 ^ r)) + ((at(i + k + 1) * (2 ^ (8 - r))) % 256)]

\* A decimal literal, most significant digit first, as an n-byte integer.
RECURSIVE Literal(_, _)
Literal(digits, n) ==
  IF digits = <<>> THEN FromInt(0, n)
  ELSE AddBig(MulSmall(Literal(SubSeq(digits, 1, Len(digits) - 1), n), 10),
              FromInt(digits[Len(digits)], n))

(***************************************************************************)
(* Compact ("nBits") encoding of a 256-bit target.                         *)
(***************************************************************************)
CompactSize(nCompact) == nCompact \div 16777216
CompactWord(nCompact) == nCompact % 8388608
CompactSign(nCompact) == (nCompact \div 8388608) % 2 = 1

SetCompact(nCompact) ==
  LET nSize == CompactSize(nCompact)
      nWord == CompactWord(nCompact)
  IN  IF nSize <= 3
      THEN FromInt(nWord \div (256 ^ (3 - nSize)), Bytes256)
      ELSE ShiftLeft(FromInt(nWord, Bytes256), 8 * (nSize - 3))

SetCompactNegative(nCompact) ==
  CompactWord(nCompact) # 0 /\ CompactSign(nCompact)

SetCompactOverflow(nCompact) ==
  LET nSize == CompactSize(nCompact)
      nWord == CompactWord(nCompact)
  IN  nWord # 0 /\ (\/ nSize > 34
                    \/ (nWord > 255 /\ nSize > 33)
                    \/ (nWord > 65535 /\ nSize > 32))

GetCompact(a) ==
  LET nSize == SizeBytes(a)
      low == IF nSize <= 3
             THEN ToInt(a) * (256 ^ (3 - nSize))
             ELSE LET bn == ShiftRight(a, 8 * (nSize - 3))
                  IN  bn[1] + 256 * bn[2] + 65536 * bn[3]
      hasSign == (low \div 8388608) % 2 = 1
      nCompact == IF hasSign THEN low \div 256 ELSE low
      size == IF hasSign THEN nSize + 1 ELSE nSize
  IN  nCompact + 16777216 * size

(***************************************************************************)
(* ASERT calculator.                                                       *)
(***************************************************************************)
\* int64_t division: truncation toward zero (divisor > 0).
TruncDiv(a, b) == IF a >= 0 THEN a \div b ELSE -((-a) \div b)

\* The polynomial of the fractional part, in uint64_t arithmetic:
\* (195766423245049*frac + 971821376*frac^2 + 5127*frac^3 + 2^47) >> 48.
PolyLinear == Literal(<<1, 9, 5, 7, 6, 6, 4, 2, 3, 2, 4, 5, 0, 4, 9>>, Bytes64)
PolyQuadratic == Literal(<<9, 7, 1, 8, 2, 1, 3, 7, 6>>, Bytes64)
PolyCubic == Literal(<<5, 1, 2, 7>>, Bytes64)

ASERTFactor(frac) ==
  LET sum == AddBig(AddBig(MulSmall(PolyLinear, frac),
                           MulSmall(MulSmall(PolyQuadratic, frac), frac)),
                    AddBig(MulSmall(MulSmall(MulSmall(PolyCubic, frac), frac), frac),
                           ShiftLeft(FromInt(1, Bytes64), 47)))
  IN  ToInt(AddBig(FromInt(65536, Bytes64), ShiftRight(sum, 48)))

\* The assertions at the head of CalculateASERT.
CalculateASERTRequires(refTarget, nPowTargetSpacing, nTimeDiff, nHeightDiff, powLimit, nHalfLife) ==
  /\ ~IsZero(refTarget) /\ LessEq(refTarget, powLimit)
  /\ IsZero(ShiftRight(powLimit, 224))
  /\ nHeightDiff > 0
  /\ Less(FromInt(Abs(nTimeDiff - nPowTargetSpacing * nHeightDiff), Bytes64),
          ShiftLeft(FromInt(1, Bytes64), 63 - 16))

\* exponent = ((nTimeDiff - nPowTargetSpacing * nHeightDiff) * 65536) / nHalfLife
ASERTExponent(nPowTargetSpacing, nTimeDiff, nHeightDiff, nHalfLife) ==
  TruncDiv((nTimeDiff - nPowTargetSpacing * nHeightDiff) * 65536, nHalfLife)

\* shifts = exponent >> 16: an arithmetic shift, rounding toward minus infinity.
ASERTShiftsTruncating(exponent) == TruncDiv(exponent, 65536)
ASERTShifts(exponent) == exponent \div 65536

\* frac = uint16_t(exponent)
ASERTFrac(exponent) == exponent % 65536

\* refTarget * factor, before the shift by shifts - 16.
ASERTProduct(refTarget, exponent) ==
  MulSmall(refTarget, ASERTFactor(ASERTFrac(exponent)))

CalculateASERTWrapping(refTarget, nPowTargetSpacing, nTimeDiff, nHeightDiff, powLimit, nHalfLife) ==
  LET exponent ==
        ASERTExponent(nPowTargetSpacing, nTimeDiff, nHeightDiff, nHalfLife)
      product == ASERTProduct(refTarget, exponent)
      shifts == ASERTShifts(exponent) - 16
      shifted == IF shifts <= 0 THEN ShiftRight(product, -shifts)
                 ELSE ShiftLeft(product, shifts)
  IN  IF IsZero(shifted) THEN FromInt(1, Bytes256)
      ELSE IF Less(powLimit, shifted) THEN powLimit
      ELSE shifted

CalculateASERT(refTarget, nPowTargetSpacing, nTimeDiff, nHeightDiff, powLimit, nHalfLife) ==
  LET exponent ==
        ASERTExponent(nPowTargetSpacing, nTimeDiff, nHeightDiff, nHalfLife)
      product == ASERTProduct(refTarget, exponent)
      shifts == ASERTShifts(exponent) - 16
      nextTargetShifted == ShiftLeft(product, shifts)
      shifted ==
        IF shifts <= 0 THEN ShiftRight(product, -shifts)
        ELSE IF ShiftRight(nextTargetShifted, shifts) # product THEN powLimit
        ELSE nextTargetShifted
  IN  IF IsZero(shifted) THEN FromInt(1, Bytes256)
      ELSE IF Less(powLimit, shifted) THEN powLimit
      ELSE shifted

\* A call of CalculateASERT: the target, or an abort on a failed assertion.
CallCalculateASERT(refTarget, nPowTargetSpacing, nTimeDiff, nHeightDiff, powLimit, nHalfLife) ==
  IF CalculateASERTRequires(refTarget, nPowTargetSpacing, nTimeDiff,
                            nHeightDiff, powLimit, nHalfLife)
  THEN [aborted |-> FALSE,
        target |-> CalculateASERT(refTarget, nPowTargetSpacing, nTimeDiff,
                                  nHeightDiff, powLimit, nHalfLife)]
  ELSE [aborted |-> TRUE, target |-> FromInt(0, Bytes256)]

(***************************************************************************)
(* Retargeting dispatcher.  The block index is a sequence of nodes; a node *)
(* is named by its position and pprev is the position of its parent, or    *)
(* Null.  A header is a record of its timestamp and its lane flag.         *)
(***************************************************************************)
Null == 0

\* An outcome of GetNextWorkRequired: the packed target returned and the
\* place it was returned from, or the assertion or null dereference that
\* stopped the call.
Returned(path, nBits, walk) ==
  [fault |-> "none", path |-> path, nBits |-> nBits, walk |-> walk]

Stopped(fault, walk) ==
  [fault |-> fault, path |-> "none", nBits |-> 0, walk |-> walk]

\* What the call did on the way: the node the lane walk ended on, the node
\* the height walk ended on, and the arguments handed to CalculateASERT.
NoWalk ==
  [laneStop |-> Null, reference |-> Null, heightStop |-> Null,
   calculated |-> FALSE, refTarget |-> FromInt(0, Bytes256),
   nPowTargetSpacing |-> 0, nTimeDiff |-> 0, nHeightDiff |-> 0]

\* The anchor's packed target of the candidate's lane.
LaneBitsLegacyOnly(p, pblock) == p.asertAnchorParams.nBitsLegacy
LaneBits(p, pblock) ==
  IF pblock.aux THEN p.asertAnchorParams.nBitsAuxPow
  ELSE p.asertAnchorParams.nBitsLegacy

\* The anchor's packed target and the spacing of the candidate's lane.
ASERTReference(p, pblock) ==
  IF pblock.aux
  THEN [anchornBits |-> p.asertAnchorParams.nBitsAuxPow,
        nPowTargetSpacing |-> p.nPowTargetSpacingAuxPow]
  ELSE [anchornBits |-> p.asertAnchorParams.nBitsLegacy,
        nPowTargetSpacing |-> p.nPowTargetSpacingLegacy]

\* A node of the other lane takes one off the height difference.
OtherLaneSame(node, pblock) == node.aux = pblock.aux
OtherLane(node, pblock) == node.aux # pblock.aux

\* The loop of GetNextASERTWorkRequired: from pindexPrev down to the anchor
\* height, counting the nodes of the other lane off nHeightDiff.
RECURSIVE HeightWalk(_, _, _, _, _)
HeightWalk(ch, pindexPrev, pblock, p, nHeightDiff) ==
  IF pindexPrev # Null /\ ch[pindexPrev].nHeight > p.asertAnchorParams.nHeight
  THEN HeightWalk(ch, ch[pindexPrev].pprev, pblock, p,
                  IF OtherLane(ch[pindexPrev], pblock)
                  THEN nHeightDiff - 1 ELSE nHeightDiff)
  ELSE [nHeightDiff |-> nHeightDiff, stop |-> pindexPrev]

GetNextASERTWorkRequired(ch, pindexPrev, pblock, p, laneStop) ==
  LET anchorParams == p.asertAnchorParams
      begun == [NoWalk EXCEPT !.laneStop = laneStop, !.reference = pindexPrev]
  IN  IF pindexPrev = Null
      THEN Stopped("assert pindexPrev != nullptr", begun)
      ELSE IF ~(anchorParams.nHeight > 0)
      THEN Stopped("assert anchorParams.nHeight > 0", begun)
      ELSE IF ~(ch[pindexPrev].nHeight > anchorParams.nHeight)
      THEN Stopped("assert pindexPrev->nHeight > anchorParams.nHeight", begun)
      ELSE IF ch[pindexPrev].pprev = Null
      THEN Stopped("assert pindexPrev->pprev != nullptr", begun)
      ELSE
        LET lane == ASERTReference(p, pblock)
            refBlockTarget == SetCompact(lane.anchornBits)
            nTimeDiff == ch[pindexPrev].nTime - anchorParams.nBlockTime
            counted == HeightWalk(ch, pindexPrev, pblock, p,
                                  ch[pindexPrev].nHeight - anchorParams.nHeight)
            walk == [begun EXCEPT !.heightStop = counted.stop,
                                  !.calculated = TRUE,
                                  !.refTarget = refBlockTarget,
                                  !.nPowTargetSpacing = lane.nPowTargetSpacing,
                                  !.nTimeDiff = nTimeDiff,
                                  !.nHeightDiff = counted.nHeightDiff]
            nextTarget == CallCalculateASERT(refBlockTarget,
                                             lane.nPowTargetSpacing, nTimeDiff,
                                             counted.nHeightDiff, p.powLimit,
                                             p.nASERTHalfLife)
        IN  IF nextTarget.aborted
            THEN Stopped("assert in CalculateASERT", walk)
            ELSE Returned("asert", GetCompact(nextTarget.target), walk)

\* The walk stops on a node of the other lane at or below the anchor height.
ReachedAnchorNever(ch, pindexPrev, p) == FALSE
ReachedAnchor(ch, pindexPrev, p) ==
  ch[pindexPrev].nHeight <= p.asertAnchorParams.nHeight

\* The loop of GetNextWorkRequired: back to the first node of the candidate's
\* lane.  Following the parent link of no node is a null dereference.
RECURSIVE LaneWalk(_, _, _, _)
LaneWalk(ch, pindexPrev, pblock, p) ==
  IF pindexPrev = Null THEN [stop |-> Null, at |-> "null"]
  ELSE IF ch[pindexPrev].aux # pblock.aux
  THEN IF ReachedAnchor(ch, pindexPrev, p)
       THEN [stop |-> pindexPrev, at |-> "anchor in loop"]
       ELSE LaneWalk(ch, ch[pindexPrev].pprev, pblock, p)
  ELSE [stop |-> pindexPrev, at |-> "lane"]

\* fPowNoRetargeting
NoRetargetingIgnored(p) == FALSE
NoRetargeting(p) == p.fPowNoRetargeting

\* The minimum-difficulty rule of test networks.
MinDifficultyApplies(ch, pindexLast, pblock, p) ==
  /\ p.fPowAllowMinDifficultyBlocks
  /\ pblock.nTime > ch[pindexLast].nTime + 2 * p.nPowTargetSpacingAuxPow

GetNextWorkRequired(ch, pindexLast, pblock, p) ==
  IF pindexLast = Null THEN Stopped("assert pindexLast != nullptr", NoWalk)
  ELSE IF NoRetargeting(p)
  THEN Returned("no retargeting", ch[pindexLast].nBits, NoWalk)
  ELSE IF ~(p.asertAnchorParams.nHeight > 0)
  THEN Stopped("assert asertAnchorParams.nHeight > 0", NoWalk)
  ELSE IF ch[pindexLast].nHeight <= p.asertAnchorParams.nHeight
  THEN Returned("before anchor", p.asertAnchorParams.nBitsLegacy, NoWalk)
  ELSE IF MinDifficultyApplies(ch, pindexLast, pblock, p)
  THEN Returned("minimum difficulty", GetCompact(p.powLimit), NoWalk)
  ELSE
    LET found == LaneWalk(ch, pindexLast, pblock, p)
        walked == [NoWalk EXCEPT !.laneStop = found.stop]
    IN  IF found.at = "null" THEN Stopped("null dereference", walked)
        ELSE IF found.at = "anchor in loop"
        THEN Returned("anchor in loop", LaneBits(p, pblock), walked)
        ELSE IF ch[found.stop].nHeight <= p.asertAnchorParams.nHeight
        THEN Returned("anchor after loop", LaneBits(p, pblock), walked)
        ELSE GetNextASERTWorkRequired(ch, found.stop, pblock, p, found.stop)

(***************************************************************************)
(* Transition validator.                                                   *)
(***************************************************************************)
\* Number of blocks between two legacy retargets.
DifficultyAdjustmentInterval(p) == p.nDifficultyAdjustmentInterval

\* SetCompact(GetCompact(x)): a target as the compact format keeps it.
Rounded(target) == SetCompact(GetCompact(target))

\* old * timespan / nPowTargetTimespan, clamped to the ceiling.
ScaledTarget(p, old_nbits, timespan) ==
  LET target == DivSmall(MulSmall(SetCompact(old_nbits), timespan),
                         p.nPowTargetTimespan)
  IN  IF Less(p.powLimit, target) THEN p.powLimit ELSE target

MaximumNewTarget(p, old_nbits) ==
  Rounded(ScaledTarget(p, old_nbits, p.nPowTargetTimespan * 4))

MinimumNewTargetUnchecked(p, old_nbits) == FromInt(0, Bytes256)
MinimumNewTargetFromLargest(p, old_nbits) ==
  Rounded(ScaledTarget(p, old_nbits, p.nPowTargetTimespan * 4))
MinimumNewTarget(p, old_nbits) ==
  Rounded(ScaledTarget(p, old_nbits, p.nPowTargetTimespan \div 4))

PermittedDifficultyTransition(p, height, old_nbits, new_nbits) ==
  IF p.fPowAllowMinDifficultyBlocks THEN TRUE
  ELSE IF height % DifficultyAdjustmentInterval(p) = 0
  THEN LET observed_new_target == SetCompact(new_nbits)
       IN  IF Less(MaximumNewTarget(p, old_nbits), observed_new_target)
           THEN FALSE
           ELSE IF Less(observed_new_target, MinimumNewTarget(p, old_nbits))
           THEN FALSE
           ELSE TRUE
  ELSE IF old_nbits # new_nbits THEN FALSE
  ELSE TRUE

(***************************************************************************)
(* Proof verifier.                                                         *)
(***************************************************************************)
HashReachesTarget(hash, bnTarget) == LessEq(bnTarget, hash)
HashExceeds(hash, bnTarget) == Less(bnTarget, hash)

CheckProofOfWork(hash, nBits, p) ==
  LET bnTarget == SetCompact(nBits)
  IN  IF \/ SetCompactNegative(nBits)
         \/ IsZero(bnTarget)
         \/ SetCompactOverflow(nBits)
         \/ Less(p.powLimit, bnTarget)
      THEN FALSE
      ELSE IF HashExceeds(hash, bnTarget) THEN FALSE
      ELSE TRUE

(***************************************************************************)
(* Inputs of the model.                                                    *)
(***************************************************************************)
\* 2^bits - 1
AllOnes(bits) == ShiftRight([i \in 1..Bytes256 |-> 255], 256 - bits)

\* Protocol ceilings: 2^224 - 1 and 2^216 - 1.
PowLimits == {AllOnes(224), AllOnes(216)}

\* Packed reference targets: 1, 0x0404cb * 256^24, 0xffff * 256^26.
RefBits == {16842752, 453248203, 486604799}

\* Spacing and half-life, in seconds.
\* Spacing and half-life in seconds, and the elapsed time a schedule starts at.
Schedules == {[spacing |-> 1, halfLife |-> 1, start |-> -250],
              [spacing |-> 1, halfLife |-> 1, start |-> -20],
              [spacing |-> 1, halfLife |-> 1, start |-> 210],
              [spacing |-> 1, halfLife |-> 3, start |-> -20],
              [spacing |-> 1, halfLife |-> 65536, start |-> -20],
              [spacing |-> 600, halfLife |-> 172800, start |-> 580]}

MaxTimeSteps == 40
MaxHeightDiff == 2

\* Packed targets offered to the validator and the verifier: 0, 1, 5, 5 with
\* the sign bit, 20, 21, 0x1fffff * 256^24, 0x7fffff * 256^24,
\* 0x3fffbf * 256^25, 0x3fffc0 * 256^25, 0xffff * 256^26, 0x3fffc * 256^26,
\* 0xffff * 256^27.
TransitionBits == {50331648, 50331649, 50331653, 58720261, 50331668, 50331669,
                   455081983, 461373439, 473956287, 473956288, 486604799,
                   486801404, 503382015}

\* Further packed targets for the verifier: sign bit with a zero mantissa,
\* sign bit with mantissa 1, 0xff * 256^31, and the overflowing 0x100 * 256^31
\* and 1 * 256^32.
PowBits == TransitionBits \cup {58720256, 75497473, 570425599, 570425600,
                                587202561}

\* Legacy retarget timespans, in seconds.
Timespans == {1209600, 10}

RetargetInterval == 2
MaxTransitionHeight == 4

\* Height of the block index, and the anchor heights configured.
MaxChainHeight == 5
AnchorHeights == {1, 2}

\* Consensus parameters of the dispatcher: the anchor targets are
\* 0x0404cb * 256^24 (primary) and 0xffff * 256^25 (auxiliary).
DispatchParams(noRetargeting, allowMinDifficulty, anchorHeight) ==
  [fPowNoRetargeting |-> noRetargeting,
   fPowAllowMinDifficultyBlocks |-> allowMinDifficulty,
   powLimit |-> AllOnes(224),
   nPowTargetSpacingLegacy |-> 2,
   nPowTargetSpacingAuxPow |-> 1,
   nASERTHalfLife |-> 2,
   asertAnchorParams |-> [nHeight |-> anchorHeight,
                          nBlockTime |-> 1,
                          nBitsLegacy |-> 453248203,
                          nBitsAuxPow |-> 469827583]]

\* The genesis block: primary lane, packed target 0xffff * 256^26.
Genesis ==
  [nHeight |-> 0, nTime |-> 0, nBits |-> 486604799, aux |-> FALSE,
   pprev |-> Null]

\* Seconds between a candidate and its parent.
MinedAfter(aux) == IF aux THEN 1 ELSE 2
QueriedAfter == {1, 3}

Unused == <<>>

(***************************************************************************)
(* CalculateASERT along a schedule: elapsed time and elapsed height grow   *)
(* one step at a time and the target is recomputed after each step.        *)
(***************************************************************************)
CalcCall(c) ==
  CallCalculateASERT(c.refTarget, c.nPowTargetSpacing, c.nTimeDiff,
                     c.nHeightDiff, c.powLimit, c.nHalfLife)

CalcInit ==
  /\ \E bits \in RefBits, lim \in PowLimits, sch \in Schedules :
       LET c == [refTarget |-> SetCompact(bits),
                 nPowTargetSpacing |-> sch.spacing,
                 nTimeDiff |-> sch.start,
                 nHeightDiff |-> 1,
                 powLimit |-> lim,
                 nHalfLife |-> sch.halfLife]
       IN  calc = [in |-> c, out |-> CalcCall(c), op |-> "first",
                   before |-> c, prev |-> CalcCall(c), steps |-> 0]
  /\ chain = Unused /\ params = Unused /\ ret = Unused
  /\ trans = Unused /\ pow = Unused

CalcAdvanceTime ==
  /\ calc.steps < MaxTimeSteps
  /\ LET c == [calc.in EXCEPT !.nTimeDiff = @ + 1]
     IN  calc' = [in |-> c, out |-> CalcCall(c), op |-> "time",
                  before |-> calc.in, prev |-> calc.out,
                  steps |-> calc.steps + 1]
  /\ UNCHANGED <<chain, params, ret, trans, pow>>

CalcAdvanceHeight ==
  /\ calc.in.nHeightDiff < MaxHeightDiff
  /\ LET c == [calc.in EXCEPT !.nHeightDiff = @ + 1]
     IN  calc' = [in |-> c, out |-> CalcCall(c), op |-> "height",
                  before |-> calc.in, prev |-> calc.out,
                  steps |-> calc.steps]
  /\ UNCHANGED <<chain, params, ret, trans, pow>>

CalcNext == CalcAdvanceTime \/ CalcAdvanceHeight

SpecASERT == CalcInit /\ [][CalcNext]_vars

(***************************************************************************)
(* The chain grows by blocks of either lane, each mined at the target      *)
(* GetNextWorkRequired gives for it; the target of a candidate on any      *)
(* block of the index can be asked for as well.                            *)
(***************************************************************************)
FallbackSites == {"anchor in loop", "anchor after loop"}

Call(pindexLast, pblock) ==
  [called |-> TRUE, pindexLast |-> pindexLast, pblock |-> pblock,
   out |-> GetNextWorkRequired(chain, pindexLast, pblock, params)]

DispatchInit ==
  /\ chain = <<Genesis>>
  /\ \E noRetargeting \in BOOLEAN, allowMinDifficulty \in BOOLEAN,
        anchorHeight \in AnchorHeights :
       params = DispatchParams(noRetargeting, allowMinDifficulty, anchorHeight)
  /\ ret = [called |-> FALSE, pindexLast |-> Null,
            pblock |-> [nTime |-> 0, aux |-> FALSE],
            out |-> Stopped("none", NoWalk)]
  /\ calc = Unused /\ trans = Unused /\ pow = Unused

MineBlock ==
  /\ Len(chain) <= MaxChainHeight
  /\ \E aux \in BOOLEAN :
       LET tip == Len(chain)
           pblock == [nTime |-> chain[tip].nTime + MinedAfter(aux), aux |-> aux]
           call == Call(tip, pblock)
       IN  /\ ret' = call
           /\ chain' = IF call.out.fault = "none"
                       THEN Append(chain, [nHeight |-> chain[tip].nHeight + 1,
                                           nTime |-> pblock.nTime,
                                           nBits |-> call.out.nBits,
                                           aux |-> aux,
                                           pprev |-> tip])
                       ELSE chain
  /\ UNCHANGED <<params, calc, trans, pow>>

QueryWork ==
  /\ \E pindexLast \in 1..Len(chain), aux \in BOOLEAN, after \in QueriedAfter :
       ret' = Call(pindexLast,
                   [nTime |-> chain[pindexLast].nTime + after, aux |-> aux])
  /\ UNCHANGED <<chain, params, calc, trans, pow>>

Next == MineBlock \/ QueryWork

Spec == DispatchInit /\ [][Next]_vars

(***************************************************************************)
(* Header validation: every new header claims a packed target, checked by  *)
(* PermittedDifficultyTransition against the target of the tip.            *)
(***************************************************************************)
TransInit ==
  /\ \E flag \in BOOLEAN, span \in Timespans, bits \in TransitionBits :
       trans = [p |-> [fPowAllowMinDifficultyBlocks |-> flag,
                       nPowTargetTimespan |-> span,
                       nDifficultyAdjustmentInterval |-> RetargetInterval,
                       powLimit |-> AllOnes(224)],
                height |-> 0, nBits |-> bits,
                checked |-> FALSE, at |-> 0, old_nbits |-> bits,
                new_nbits |-> bits, permitted |-> TRUE]
  /\ chain = Unused /\ params = Unused /\ ret = Unused
  /\ calc = Unused /\ pow = Unused

AcceptHeader ==
  /\ trans.height < MaxTransitionHeight
  /\ \E new_nbits \in TransitionBits :
       LET permitted == PermittedDifficultyTransition(
                          trans.p, trans.height + 1, trans.nBits, new_nbits)
       IN  trans' = [trans EXCEPT
                       !.height = IF permitted THEN @ + 1 ELSE @,
                       !.nBits = IF permitted THEN new_nbits ELSE @,
                       !.checked = TRUE,
                       !.at = trans.height + 1,
                       !.old_nbits = trans.nBits,
                       !.new_nbits = new_nbits,
                       !.permitted = permitted]
  /\ UNCHANGED <<chain, params, ret, calc, pow>>

TransNext == AcceptHeader

SpecTransition == TransInit /\ [][TransNext]_vars

(***************************************************************************)
(* Proof checking: hashes are tried against a packed target.               *)
(***************************************************************************)
\* Hashes around the decoded target, and the two extremes.
HashesFor(nBits) ==
  LET t == SetCompact(nBits)
  IN  {FromInt(0, Bytes256), AllOnes(256), t,
       AddBig(t, FromInt(1, Bytes256)), AddBig(t, AllOnes(256))}

PowInit ==
  /\ \E lim \in PowLimits, bits \in PowBits :
       pow = [p |-> [powLimit |-> lim], nBits |-> bits,
              hash |-> FromInt(0, Bytes256), checked |-> FALSE, ok |-> FALSE]
  /\ chain = Unused /\ params = Unused /\ ret = Unused
  /\ calc = Unused /\ trans = Unused

TryHash ==
  /\ \E hash \in HashesFor(pow.nBits) :
       pow' = [pow EXCEPT !.hash = hash, !.checked = TRUE,
                          !.ok = CheckProofOfWork(hash, pow.nBits, pow.p)]
  /\ UNCHANGED <<chain, params, ret, calc, trans>>

PowNext == TryHash

SpecProof == PowInit /\ [][PowNext]_vars

(***************************************************************************)
(* Properties of GetNextWorkRequired.                                      *)
(***************************************************************************)
Called == ret # Unused /\ ret.called

AnchorHeight == params.asertAnchorParams.nHeight

Highest(S) == CHOOSE x \in S : \A y \in S : y <= x

\* Genesis has height 0 and no parent; every other node has its parent just
\* before it, one lower.
WellFormed ==
  \A i \in 1..Len(chain) :
    /\ chain[i].nHeight = i - 1
    /\ chain[i].pprev = i - 1

\* The nodes from the genesis block up to node i: i and its ancestors.
UpTo(i) == 1..i

\* The anchor's packed target of the lane of the candidate of the last call.
CandidateLaneBits ==
  IF ret.pblock.aux THEN params.asertAnchorParams.nBitsAuxPow
  ELSE params.asertAnchorParams.nBitsLegacy

\* C1: with no-retargeting off, a candidate of either lane whose parent is at
\* or below the anchor height gets the anchor's packed target of its own
\* lane, and CalculateASERT is not called.
BeforeAnchorOwnLaneTarget ==
  (/\ Called
   /\ ~params.fPowNoRetargeting
   /\ chain[ret.pindexLast].nHeight <= AnchorHeight)
    => /\ ret.out.fault = "none"
       /\ ret.out.nBits = CandidateLaneBits
       /\ ~ret.out.walk.calculated

\* C2: with no-retargeting on, the parent's packed target is returned
\* unchanged, whatever the candidate, the parent's height and the other
\* parameters are.
NoRetargetingKeepsParentBits ==
  (Called /\ params.fPowNoRetargeting)
    => /\ ret.out.fault = "none"
       /\ ret.out.nBits = chain[ret.pindexLast].nBits

\* Witness of C2: an auxiliary candidate above the anchor, late enough for
\* the minimum-difficulty rule, gets its parent's packed target.
NoRetargetingAboveAnchor ==
  /\ Called
  /\ params.fPowNoRetargeting
  /\ params.fPowAllowMinDifficultyBlocks
  /\ ret.pblock.aux
  /\ chain[ret.pindexLast].nHeight > AnchorHeight
  /\ ret.pblock.nTime
       > chain[ret.pindexLast].nTime + 2 * params.nPowTargetSpacingAuxPow
  /\ ret.out.nBits = chain[ret.pindexLast].nBits

\* The last call went into the lane walk: no-retargeting off, parent above
\* the anchor, minimum-difficulty rule not applying.
WalkCase ==
  /\ Called
  /\ ~params.fPowNoRetargeting
  /\ chain[ret.pindexLast].nHeight > AnchorHeight
  /\ ~MinDifficultyApplies(chain, ret.pindexLast, ret.pblock, params)

\* Nodes of the candidate's lane above the anchor, among the nodes up to i.
SameLaneAbove(i) ==
  {j \in UpTo(i) : /\ chain[j].nHeight > AnchorHeight
                   /\ chain[j].aux = ret.pblock.aux}

\* Nodes of the other lane above the anchor, among the nodes up to i.
OtherLaneAbove(i) ==
  {j \in UpTo(i) : /\ chain[j].nHeight > AnchorHeight
                   /\ chain[j].aux # ret.pblock.aux}

\* C8: in the lane walk, the anchor's packed target of the candidate's lane
\* is returned from one of the two fallback sites exactly when no node above
\* the anchor, from the parent down, is of the candidate's lane; otherwise
\* the ASERT path is taken with the nearest such node as reference.  The
\* site inside the loop is left on a node of the other lane at or below the
\* anchor, the site after the loop on a node of the candidate's lane there.
LaneWalkFallsBackOrFindsReference ==
  WalkCase =>
    LET same == SameLaneAbove(ret.pindexLast)
        stop == ret.out.walk.laneStop
    IN  /\ ret.out.fault = "none"
        /\ (same = {}) <=> (ret.out.path \in FallbackSites)
        /\ (same # {}) <=> (ret.out.path = "asert")
        /\ ret.out.path \in FallbackSites => ret.out.nBits = CandidateLaneBits
        /\ ret.out.path = "asert" =>
             /\ ret.out.walk.calculated
             /\ ret.out.walk.reference = Highest(same)
        /\ ret.out.path = "anchor in loop" =>
             /\ chain[stop].aux # ret.pblock.aux
             /\ chain[stop].nHeight <= AnchorHeight
        /\ ret.out.path = "anchor after loop" =>
             /\ chain[stop].aux = ret.pblock.aux
             /\ chain[stop].nHeight <= AnchorHeight

\* Witness of C8: an auxiliary candidate two or more blocks above an
\* auxiliary anchor block, over primary blocks only, is answered from the
\* site after the loop with the auxiliary anchor target.
FallbackAfterLoopReached ==
  /\ WalkCase
  /\ ret.out.path = "anchor after loop"
  /\ ret.pblock.aux
  /\ chain[ret.pindexLast].nHeight >= AnchorHeight + 2
  /\ ret.out.nBits = params.asertAnchorParams.nBitsAuxPow

\* The other fallback site: a candidate above a chain of the other lane down
\* to and including the anchor block is answered from inside the loop.
FallbackInLoopReached ==
  /\ WalkCase
  /\ ret.out.path = "anchor in loop"
  /\ chain[ret.pindexLast].nHeight >= AnchorHeight + 2
  /\ ret.out.nBits = CandidateLaneBits

\* C9: on the ASERT path the height difference handed to CalculateASERT is
\* the reference height minus the anchor height minus the number of
\* other-lane nodes above the anchor up to the reference, which is the number
\* of same-lane nodes there; the time difference is the reference node's time
\* minus the configured anchor time; target and spacing are the lane's.
ASERTArgumentsFromWalk ==
  (Called /\ ret.out.walk.calculated) =>
    LET walk == ret.out.walk
        ref == chain[walk.reference]
    IN  /\ walk.nHeightDiff = (ref.nHeight - AnchorHeight)
                                - Cardinality(OtherLaneAbove(walk.reference))
        /\ walk.nHeightDiff = Cardinality(SameLaneAbove(walk.reference))
        /\ walk.nTimeDiff = ref.nTime - params.asertAnchorParams.nBlockTime
        /\ walk.refTarget = SetCompact(CandidateLaneBits)
        /\ walk.nPowTargetSpacing =
             IF ret.pblock.aux THEN params.nPowTargetSpacingAuxPow
             ELSE params.nPowTargetSpacingLegacy

\* Witness of C9: an ASERT call whose reference has other-lane nodes between
\* it and the anchor, and at least one same-lane node below it.
ASERTCalledAcrossLanes ==
  /\ Called /\ ret.out.walk.calculated
  /\ ret.out.fault = "none"
  /\ Cardinality(OtherLaneAbove(ret.out.walk.reference)) >= 2
  /\ ret.out.walk.nHeightDiff >= 2

\* C10: on a well-formed chain with a positive anchor height every call with
\* a parent ends without a null dereference and without a failed assertion:
\* the lane walk stops on a node at or above the anchor height, and when the
\* ASERT path is entered the reference is above the anchor, has a parent,
\* the height walk stops on the node at the anchor height and the height
\* difference is positive.
WalksStopAtAnchor ==
  (Called /\ WellFormed /\ AnchorHeight > 0 /\ ret.pindexLast # Null) =>
    LET walk == ret.out.walk
    IN  /\ ret.out.fault = "none"
        /\ ret.out.path \in FallbackSites \cup {"asert"} =>
             /\ walk.laneStop # Null
             /\ chain[walk.laneStop].nHeight >= AnchorHeight
        /\ walk.calculated =>
             /\ walk.reference # Null
             /\ chain[walk.reference].nHeight > AnchorHeight
             /\ chain[walk.reference].pprev # Null
             /\ walk.heightStop # Null
             /\ chain[walk.heightStop].nHeight = AnchorHeight
             /\ walk.nHeightDiff > 0

\* Witness of C10: the ASERT path entered after a lane walk over nodes of the
\* other lane, on a chain with both lanes above the anchor.
ASERTEnteredAfterWalk ==
  /\ Called /\ WellFormed
  /\ ret.out.path = "asert"
  /\ ret.out.walk.reference # ret.pindexLast
  /\ OtherLaneAbove(ret.out.walk.reference) # {}
  /\ ret.out.walk.nHeightDiff > 0

(***************************************************************************)
(* Properties of CalculateASERT.                                           *)
(***************************************************************************)
CalcExponent(c) ==
  ASERTExponent(c.nPowTargetSpacing, c.nTimeDiff, c.nHeightDiff, c.nHalfLife)

\* C3: whenever the assertions of CalculateASERT hold, the returned target t
\* satisfies 1 <= t <= ceiling; a product that the right shift empties is
\* returned as 1, and a product whose exact shifted value exceeds the ceiling
\* (overflowing 256 bits or not) is returned as exactly the ceiling.
ASERTResultInRange ==
  (calc # Unused /\ ~calc.out.aborted) =>
    LET c == calc.in
        t == calc.out.target
        product == ASERTProduct(c.refTarget, CalcExponent(c))
        shifts == ASERTShifts(CalcExponent(c)) - 16
    IN  /\ ~IsZero(t)
        /\ LessEq(t, c.powLimit)
        /\ (shifts <= 0 /\ Bits(product) <= -shifts) => t = FromInt(1, Bytes256)
        /\ (shifts > 0 /\ Less(ShiftRight(c.powLimit, shifts), product))
              => t = c.powLimit

\* Witness of C3: the left shift overflows 256 bits and the ceiling is returned.
ASERTOverflowClamped ==
  /\ calc # Unused /\ ~calc.out.aborted
  /\ LET c == calc.in
         product == ASERTProduct(c.refTarget, CalcExponent(c))
         shifts == ASERTShifts(CalcExponent(c)) - 16
     IN  /\ calc.op = "time"
         /\ shifts > 0
         /\ Bits(product) + shifts > 256
         /\ ShiftLeft(product, shifts) # c.powLimit
         /\ calc.out.target = c.powLimit

\* C4: a later elapsed time never lowers the target and a greater elapsed
\* height never raises it, all other inputs being equal.
ASERTMonotone ==
  (calc # Unused /\ ~calc.out.aborted /\ ~calc.prev.aborted) =>
    /\ calc.op = "time" => LessEq(calc.prev.target, calc.out.target)
    /\ calc.op = "height" => LessEq(calc.out.target, calc.prev.target)

\* Witness of C4: one more second takes the fraction from 65535 to 0 and the
\* shift count up by one, and the target rises.
ASERTFractionWraps ==
  /\ calc # Unused /\ ~calc.out.aborted /\ ~calc.prev.aborted
  /\ calc.op = "time"
  /\ ASERTFrac(CalcExponent(calc.before)) = 65535
  /\ ASERTFrac(CalcExponent(calc.in)) = 0
  /\ ASERTShifts(CalcExponent(calc.in))
       = ASERTShifts(CalcExponent(calc.before)) + 1
  /\ CalcExponent(calc.before) < 0
  /\ Less(calc.prev.target, calc.out.target)

(***************************************************************************)
(* Properties of PermittedDifficultyTransition.                            *)
(***************************************************************************)
\* a > 4 * b, without overflow.
MoreThanFourTimes(a, b) ==
  \/ Less(b, ShiftRight(a, 2))
  \/ (b = ShiftRight(a, 2) /\ a[1] % 4 # 0)

\* The header just checked was at a retarget boundary with the
\* minimum-difficulty flag off.
CheckedAtBoundary ==
  /\ trans # Unused /\ trans.checked
  /\ ~trans.p.fPowAllowMinDifficultyBlocks
  /\ trans.at % trans.p.nDifficultyAdjustmentInterval = 0

\* C5 as stated: at a boundary, with the flag off, an unchanged packed target
\* is permitted whatever the old packed target is.
UnchangedAlwaysPermitted ==
  (CheckedAtBoundary /\ trans.new_nbits = trans.old_nbits) => trans.permitted

\* C5 amended: at a boundary, with the flag off, an unchanged packed target
\* is permitted when the old target decodes to a value within the ceiling.
UnchangedPermittedWithinCeiling ==
  (/\ CheckedAtBoundary
   /\ trans.new_nbits = trans.old_nbits
   /\ LessEq(SetCompact(trans.old_nbits), trans.p.powLimit)) => trans.permitted

\* Witness of C5: an unchanged non-zero target within the ceiling is permitted at a boundary.
UnchangedPermittedAtBoundary ==
  /\ CheckedAtBoundary
  /\ trans.new_nbits = trans.old_nbits
  /\ ~IsZero(SetCompact(trans.old_nbits))
  /\ LessEq(SetCompact(trans.old_nbits), trans.p.powLimit)
  /\ trans.permitted

\* C6 as stated: at a boundary, with the flag off, a new target above four
\* times the old one, or below the exact quarter of the old one, is rejected.
ExactRatioRejected ==
  CheckedAtBoundary =>
    LET old == SetCompact(trans.old_nbits)
        new == SetCompact(trans.new_nbits)
    IN  (MoreThanFourTimes(new, old) \/ MoreThanFourTimes(old, new))
          => ~trans.permitted

\* C6 amended: at a boundary, with the flag off, a new target above four
\* times the old one is rejected, and so is a new target below the minimum
\* floor(old * floor(timespan / 4) / timespan), clamped to the ceiling and
\* rounded by the compact format.
RoundedRatioRejected ==
  CheckedAtBoundary =>
    LET old == SetCompact(trans.old_nbits)
        new == SetCompact(trans.new_nbits)
        quarter == DivSmall(MulSmall(old, trans.p.nPowTargetTimespan \div 4),
                            trans.p.nPowTargetTimespan)
        minimum == Rounded(IF Less(trans.p.powLimit, quarter)
                           THEN trans.p.powLimit ELSE quarter)
    IN  (MoreThanFourTimes(new, old) \/ Less(new, minimum))
          => ~trans.permitted

\* Witness of C6: a new target below the rounded minimum is rejected at a boundary.
BelowQuarterRejected ==
  /\ CheckedAtBoundary
  /\ Less(SetCompact(trans.new_nbits),
          MinimumNewTarget(trans.p, trans.old_nbits))
  /\ ~MoreThanFourTimes(SetCompact(trans.new_nbits), SetCompact(trans.old_nbits))
  /\ ~trans.permitted

(***************************************************************************)
(* Properties of CheckProofOfWork.                                         *)
(***************************************************************************)
ValidTarget(nBits, p) ==
  /\ ~SetCompactNegative(nBits)
  /\ ~SetCompactOverflow(nBits)
  /\ ~IsZero(SetCompact(nBits))
  /\ LessEq(SetCompact(nBits), p.powLimit)

\* C7: CheckProofOfWork accepts exactly when the packed target is valid (not
\* negative, not overflowing, non-zero, within the ceiling) and the hash is at
\* most the decoded target; a hash equal to a valid target passes and a hash
\* one above it fails.
ProofAcceptedIffWithinTarget ==
  (pow # Unused /\ pow.checked) =>
    LET t == SetCompact(pow.nBits)
    IN  /\ pow.ok = (ValidTarget(pow.nBits, pow.p) /\ LessEq(pow.hash, t))
        /\ (ValidTarget(pow.nBits, pow.p) /\ pow.hash = t) => pow.ok
        /\ (ValidTarget(pow.nBits, pow.p)
              /\ pow.hash = AddBig(t, FromInt(1, Bytes256))) => ~pow.ok

\* Witness of C7: a hash equal to a valid target has been accepted.
HashEqualToTargetAccepted ==
  /\ pow # Unused /\ pow.checked
  /\ ValidTarget(pow.nBits, pow.p)
  /\ pow.hash = SetCompact(pow.nBits)
  /\ pow.ok

====
